---------------------------- MODULE Spec2Model ----------------------------
(***************************************************************************)
(* A model of the Multi-scale CLEAN package (src/clean.go): the worker     *)
(* partitioner, the parallel convolution, the dirty-map synthesis and the  *)
(* MultiScaleClean loop.                                                   *)
(*                                                                         *)
(* The package is a library of functions, so the module holds one state    *)
(* machine per entry point, each with its own variables and its own        *)
(* specification; while one machine runs, the variables of the others      *)
(* rest at their idle values.                                              *)
(*   SpecDivide    newWorkerPool + workerPool.divide                       *)
(*   SpecConvolve  convolve, its worker goroutines interleaved             *)
(*   SpecDirty     createDirtyMapsFromACB, its goroutines interleaved      *)
(*   SpecRoute     the body of the accumulation loop, one sample at a time *)
(*   SpecClean     MultiScaleClean                                         *)
(*   SpecParse     ParseACB, one scanned line at a time                    *)
(***************************************************************************)
EXTENDS Integers, Sequences, FiniteSets, TLC

VARIABLES
    \* ---- SpecDivide: newWorkerPool() followed by pool.divide(total)
    dPc,        \* "idle" | "start" | "pool" | "divided" | "panic"
    dNumCPU,    \* runtime.NumCPU() of the host
    dTotal,     \* the argument of divide
    dWorkers,   \* pool.workers
    dChunks     \* the value divide returned

divVars == <<dPc, dNumCPU, dTotal, dWorkers, dChunks>>

VARIABLES
    \* ---- SpecConvolve: one call convolve(img1, img2)
    cPc,        \* "idle" | "start" | "run" | "done" | "panic"
    cNumCPU,    \* runtime.NumCPU() of the host
    cImg1,      \* first argument
    cImg2,      \* second argument
    cResult,    \* the shared output grid the workers accumulate into
    cWorkers    \* the worker goroutines: sequence of records (see CvSpawn)

cvVars == <<cPc, cNumCPU, cImg1, cImg2, cResult, cWorkers>>

VARIABLES
    \* ---- SpecDirty: one call createDirtyMapsFromACB(data, numScales, imageSize)
    mPc,          \* "idle" | "start" | "lookup" | "accumulate" | "done" | "panic"
    mNumCPU,      \* runtime.NumCPU() of the host
    mFreqs,       \* data.Frequencies
    mAmps,        \* data.Amplitudes
    mNumScales,   \* numScales
    mImageSize,   \* imageSize
    mUnique,      \* uniqueFreqs
    mLookup,      \* gaussianLookup: scale -> grid, or "nil" before it is filled
    mLookupDone,  \* the scales whose lookup goroutine has called wg.Done
    mDirty,       \* dirtyMaps: scale -> grid
    mMutex,       \* 0 when unlocked, else the number of the worker holding it
    mWorkers      \* the accumulation goroutines (see DmSpawn)

dmVars == <<mPc, mNumCPU, mFreqs, mAmps, mNumScales, mImageSize, mUnique,
            mLookup, mLookupDone, mDirty, mMutex, mWorkers>>

VARIABLES
    \* ---- SpecRoute: one execution of the accumulation loop body (lines 201-226)
    rPc,          \* "idle" | "start" | "routed"
    rNumUnique,   \* len(uniqueFreqs)
    rNumScales,   \* numScales
    rI,           \* the sample index i of the execution
    rAmp,         \* data.Amplitudes[i]
    rBefore,      \* dirtyMaps before the execution
    rAfter        \* dirtyMaps after it

rtVars == <<rPc, rNumUnique, rNumScales, rI, rAmp, rBefore, rAfter>>

VARIABLES
    \* ---- SpecClean: one call MultiScaleClean(unclean, psfs, basisFuncs, scaleBias)
    kPc,            \* "idle" | "start" | "loop" | "select" | "updateCC" | "crossconv"
                    \* | "subtract" | "checkB" | "exit" | "done" | "panic"
    kNumCPU,        \* runtime.NumCPU() of the host
    kHeap,          \* the grids in memory: reference -> grid
    kUnclean,       \* the caller's dirty maps: references, scale i at kUnclean[i+1]
    kPsfs,          \* the caller's PSFs: references
    kBasis,         \* the caller's basis functions: references
    kBias,          \* the caller's scaleBias: scale i at kBias[i+1]
    kCaller,        \* what the caller's grids and bias held at the call
    kCC,            \* cleanComponents: a reference
    kCur,           \* currentDirtyMaps: references
    kIter,          \* iterCount
    kRescaled,      \* rescaledDirtyMaps of the iteration: scale -> grid
    kMaxScale,      \* maxScale
    kMaxPos,        \* maxPos, <<x, y>>
    kMaxIntensity,  \* maxIntensity
    kCross,         \* crossConvs of updateDirtyMaps: scale -> grid, <<>> while nil
    kCrossDone,     \* the scales whose convolve goroutine has called wg.Done
    kTasks,         \* the subtraction goroutines: [start, i, end], i the next scale
    kExit,          \* how the loop ended: "none" | "intensity" | "converged" | "budget"
    kImage          \* the returned cleanedImage

clVars == <<kPc, kNumCPU, kHeap, kUnclean, kPsfs, kBasis, kBias, kCaller, kCC, kCur,
            kIter, kRescaled, kMaxScale, kMaxPos, kMaxIntensity, kCross, kCrossDone,
            kTasks, kExit, kImage>>

VARIABLES
    \* ---- SpecParse: one call ParseACB(filename)
    pPc,            \* "idle" | "start" | "scan" | "done"
    pOpenFails,     \* os.Open returns an error
    pFile,          \* the lines of the file
    pReadFails,     \* the line at which scanner.Scan() fails, 0 for never
    pLineNum,       \* lineNum
    pData,          \* the ACBData under construction
    pErr            \* the error returned: "nil" | "open" | "scan"

paVars == <<pPc, pOpenFails, pFile, pReadFails, pLineNum, pData, pErr>>

vars == <<divVars, cvVars, dmVars, rtVars, clVars, paVars>>

-----------------------------------------------------------------------------
(* Bounds of the model                                                     *)

\* SpecDivide: runtime.NumCPU() ranges over 1..MaxDivCPU
MaxDivCPU == 8
\* SpecDivide: the item count handed to divide ranges over 0..MaxTotal
MaxTotal == 9
\* SpecConvolve: runtime.NumCPU() ranges over 1..CvMaxCPU
CvMaxCPU == 3
\* SpecConvolve: the arguments have 1..CvRows rows and 1..CvCols columns
CvRows == 2
CvCols == 2
\* SpecConvolve: cell (i,j) of an argument holds base + i*cols + j, base in 1..CvMaxBase
CvMaxBase == 2
\* SpecDirty: runtime.NumCPU() ranges over 1..DmMaxCPU
DmMaxCPU == 3
\* SpecDirty: numScales ranges over 1..DmMaxScales, imageSize over 1..DmMaxSize
DmMaxScales == 2
DmMaxSize == 2
\* SpecDirty: 0..DmMaxUnique distinct frequencies, 0..DmMaxAmps amplitudes
DmMaxUnique == 4
DmMaxAmps == 4
\* SpecRoute: 0..RtMaxUnique distinct frequencies, 1..RtMaxScales scales,
\* sample indices 0..RtMaxIndex, amplitudes 1..RtMaxAmp
RtMaxUnique == 22
RtMaxScales == 22
RtMaxIndex == 23
RtMaxAmp == 2
\* SpecClean: runtime.NumCPU() ranges over 1..KMaxCPU
KMaxCPU == 3
\* SpecClean: 1..KMaxScales scales, grids of KRows x KCols cells.  convolve
\* divides the rows of its first image among the workers, so on one-row
\* images a single worker adds into the result, whatever the pool size.
KMaxScales == 2
KRows == 1
KCols == 2
\* SpecParse: files of up to PaMaxLines lines
PaMaxLines == 3

-----------------------------------------------------------------------------
(* Idle values: what a machine's variables hold while another machine runs *)

DivIdle ==
    /\ dPc = "idle"
    /\ dNumCPU = 0
    /\ dTotal = 0
    /\ dWorkers = 0
    /\ dChunks = <<>>

CvIdle ==
    /\ cPc = "idle"
    /\ cNumCPU = 0
    /\ cImg1 = <<>>
    /\ cImg2 = <<>>
    /\ cResult = <<>>
    /\ cWorkers = <<>>

DmIdle ==
    /\ mPc = "idle"
    /\ mNumCPU = 0
    /\ mFreqs = <<>>
    /\ mAmps = <<>>
    /\ mNumScales = 0
    /\ mImageSize = 0
    /\ mUnique = <<>>
    /\ mLookup = <<>>
    /\ mLookupDone = {}
    /\ mDirty = <<>>
    /\ mMutex = 0
    /\ mWorkers = <<>>

RtIdle ==
    /\ rPc = "idle"
    /\ rNumUnique = 0
    /\ rNumScales = 0
    /\ rI = 0
    /\ rAmp = 0
    /\ rBefore = <<>>
    /\ rAfter = <<>>

ClIdle ==
    /\ kPc = "idle"
    /\ kNumCPU = 0
    /\ kHeap = <<>>
    /\ kUnclean = <<>>
    /\ kPsfs = <<>>
    /\ kBasis = <<>>
    /\ kBias = <<>>
    /\ kCaller = <<>>
    /\ kCC = 0
    /\ kCur = <<>>
    /\ kIter = 0
    /\ kRescaled = <<>>
    /\ kMaxScale = 0
    /\ kMaxPos = <<0, 0>>
    /\ kMaxIntensity = 0
    /\ kCross = <<>>
    /\ kCrossDone = {}
    /\ kTasks = <<>>
    /\ kExit = "none"
    /\ kImage = <<>>

PaIdle ==
    /\ pPc = "idle"
    /\ pOpenFails = FALSE
    /\ pFile = <<>>
    /\ pReadFails = 0
    /\ pLineNum = 0
    /\ pData = <<>>
    /\ pErr = "nil"

notDiv == <<cvVars, dmVars, rtVars, clVars, paVars>>
notCv == <<divVars, dmVars, rtVars, clVars, paVars>>
notDm == <<divVars, cvVars, rtVars, clVars, paVars>>
notRt == <<divVars, cvVars, dmVars, clVars, paVars>>
notCl == <<divVars, cvVars, dmVars, rtVars, paVars>>
notPa == <<divVars, cvVars, dmVars, rtVars, clVars>>

-----------------------------------------------------------------------------
(* Small helpers                                                           *)

Min(a, b) == IF a < b THEN a ELSE b

\* Go's integer division truncates toward zero; \div floors.
GoDiv(a, b) ==
    IF b = 0 THEN 0
    ELSE LET q == (IF a < 0 THEN -a ELSE a) \div (IF b < 0 THEN -b ELSE b)
         IN  IF (a < 0) = (b < 0) THEN q ELSE -q

GoMod(a, b) == a - b * GoDiv(a, b)

-----------------------------------------------------------------------------
(* Worker partitioner                                                      *)

\* newWorkerPool: workers = (runtime.NumCPU() * 3) / 4, with no lower bound.
newWorkerPool(numCPU) == GoDiv(numCPU * 3, 4)

\* The loop of divide: chunk i (0-based) is appended to the chunks built so far.
RECURSIVE divideLoop(_, _, _, _, _, _)
divideLoop(workers, chunkSize, remainder, i, start, chunks) ==
    IF i >= workers THEN chunks
    ELSE LET size == IF i < remainder THEN chunkSize + 1 ELSE chunkSize
         IN  divideLoop(workers, chunkSize, remainder, i + 1, start + size,
                        Append(chunks, <<start, start + size>>))

divideNoRemainder(workers, total) ==
    divideLoop(workers, GoDiv(total, workers), 0, 0, 0, <<>>)

\* workerPool.divide for workers > 0 (the integer division by p.workers
\* panics when workers = 0: see dividePanics).
divide(workers, total) ==
    divideLoop(workers, GoDiv(total, workers), GoMod(total, workers), 0, 0, <<>>)

\* total / p.workers is a run-time panic (integer divide by zero) when the
\* pool has no worker.
dividePanics(workers) == workers = 0

-----------------------------------------------------------------------------
(* SpecDivide                                                              *)

InitDivide ==
    /\ dPc = "start"
    /\ dNumCPU \in 1..MaxDivCPU
    /\ dTotal \in 0..MaxTotal
    /\ dWorkers = 0
    /\ dChunks = <<>>
    /\ CvIdle
    /\ DmIdle
    /\ RtIdle
    /\ ClIdle
    /\ PaIdle

DivNewWorkerPool ==
    /\ dPc = "start"
    /\ dWorkers' = newWorkerPool(dNumCPU)
    /\ dPc' = "pool"
    /\ UNCHANGED <<dNumCPU, dTotal, dChunks>>
    /\ UNCHANGED notDiv

DivDivide ==
    /\ dPc = "pool"
    /\ ~dividePanics(dWorkers)
    /\ dChunks' = divide(dWorkers, dTotal)
    /\ dPc' = "divided"
    /\ UNCHANGED <<dNumCPU, dTotal, dWorkers>>
    /\ UNCHANGED notDiv

DivPanic ==
    /\ dPc = "pool"
    /\ dividePanics(dWorkers)
    /\ dPc' = "panic"
    /\ UNCHANGED <<dNumCPU, dTotal, dWorkers, dChunks>>
    /\ UNCHANGED notDiv

NextDivide ==
    \/ DivNewWorkerPool
    \/ DivDivide
    \/ DivPanic

SpecDivide == InitDivide /\ [][NextDivide]_vars

\* C3: for every total T >= 0 and worker count W >= 1, divide(T) returns
\* exactly W ranges [start, end) that are contiguous and gap-free, the first
\* starting at 0 and the last ending at T; the first T mod W ranges have
\* length floor(T/W) + 1 and the others floor(T/W).
C3_DivideCoversRange ==
    (dPc = "divided" /\ dWorkers >= 1) =>
        /\ Len(dChunks) = dWorkers
        /\ dChunks[1][1] = 0
        /\ dChunks[dWorkers][2] = dTotal
        /\ \A n \in 1..(dWorkers - 1) : dChunks[n + 1][1] = dChunks[n][2]
        /\ \A n \in 1..dWorkers :
               dChunks[n][2] - dChunks[n][1] =
                   (dTotal \div dWorkers) + (IF n <= dTotal % dWorkers THEN 1 ELSE 0)

\* divide has returned for a total that leaves a remainder over two or more workers.
C3_Witness ==
    /\ dPc = "divided"
    /\ dWorkers >= 2
    /\ dTotal > dWorkers
    /\ dTotal % dWorkers # 0

\* C4: every pool newWorkerPool creates has at least one worker, for every
\* hardware parallelism >= 1, so that divide never divides by zero.
C4_WorkersAtLeastOne ==
    /\ dPc \in {"pool", "divided", "panic"} => dWorkers >= 1
    /\ dPc # "panic"

-----------------------------------------------------------------------------
(* Grids: an Image is a function row -> (column -> value), 0-based         *)

Rows(img) == Cardinality(DOMAIN img)
Cols(img) == Cardinality(DOMAIN img[0])

ZeroGrid(h, w) == [i \in 0..(h - 1) |-> [j \in 0..(w - 1) |-> 0]]

\* The cells of img in scan order (rows outermost).
CellsInOrder(img) ==
    LET w == Cols(img)
    IN  [n \in 1..(Rows(img) * w) |-> <<(n - 1) \div w, (n - 1) % w>>]

-----------------------------------------------------------------------------
(* convolve: the sequential draft                                          *)

\* The four nested loops of the sequential convolve, flattened: step n is
\* the n-th execution of result[i+k][j+l] += img1[i][j] * img2[k][l] in
\* loop order (i outermost, l innermost).
RECURSIVE convolveSeqLoop(_, _, _, _)
convolveSeqLoop(img1, img2, n, result) ==
    LET w1 == Cols(img1)
        h2 == Rows(img2)
        w2 == Cols(img2)
        l == n % w2
        k == (n \div w2) % h2
        j == (n \div (w2 * h2)) % w1
        i == n \div (w2 * h2 * w1)
    IN  IF i >= Rows(img1) THEN result
        ELSE convolveSeqLoop(img1, img2, n + 1,
                 [result EXCEPT ![i + k][j + l] = @ + img1[i][j] * img2[k][l]])

convolveSeq(img1, img2) ==
    convolveSeqLoop(img1, img2, 0,
        ZeroGrid(Rows(img1) + Rows(img2) - 1, Cols(img1) + Cols(img2) - 1))

-----------------------------------------------------------------------------
(* convolve: the parallel version, one goroutine per chunk of rows of img1 *)

\* The goroutine started for chunk <<start, end>>: it is about to execute the
\* read of result[i+k][j+l] for (i, j, k, l) = (start, 0, 0, 0), or has
\* nothing to do when the chunk is empty.
CvSpawn(chunk) ==
    [pc |-> IF chunk[1] < chunk[2] THEN "read" ELSE "done",
     i |-> chunk[1], j |-> 0, k |-> 0, l |-> 0, end |-> chunk[2], tmp |-> 0]

\* The loop indices after one execution of the innermost statement.
CvAdvance(w, img1, img2) ==
    LET w1 == Cols(img1)
        h2 == Rows(img2)
        w2 == Cols(img2)
        l1 == IF w.l + 1 < w2 THEN w.l + 1 ELSE 0
        k1 == IF l1 # 0 THEN w.k ELSE IF w.k + 1 < h2 THEN w.k + 1 ELSE 0
        j1 == IF l1 # 0 \/ k1 # 0 THEN w.j ELSE IF w.j + 1 < w1 THEN w.j + 1 ELSE 0
        i1 == IF l1 # 0 \/ k1 # 0 \/ j1 # 0 THEN w.i ELSE w.i + 1
    IN  [w EXCEPT !.i = i1, !.j = j1, !.k = k1, !.l = l1,
                  !.pc = IF i1 < w.end THEN "read" ELSE "done"]

\* result[i+k][j+l] += img1[i][j] * img2[k][l] is a load, an add and a store;
\* nothing orders it against the other goroutines. CvLoad is the load.
CvLoad(w, result) ==
    [w EXCEPT !.tmp = result[w.i + w.k][w.j + w.l], !.pc = "write"]

\* The value the store writes.
CvStoreValue(w, img1, img2, result) == w.tmp + img1[w.i][w.j] * img2[w.k][w.l]

-----------------------------------------------------------------------------
(* SpecConvolve                                                            *)

CvRamp(h, w, base) == [i \in 0..(h - 1) |-> [j \in 0..(w - 1) |-> base + i * w + j]]

InitConvolve ==
    /\ cPc = "start"
    /\ cNumCPU \in 1..CvMaxCPU
    /\ \E h \in 1..CvRows, w \in 1..CvCols, b \in 1..CvMaxBase :
           cImg1 = CvRamp(h, w, b)
    /\ \E h \in 1..CvRows, w \in 1..CvCols, b \in 1..CvMaxBase :
           cImg2 = CvRamp(h, w, b)
    /\ cResult = <<>>
    /\ cWorkers = <<>>
    /\ DivIdle
    /\ DmIdle
    /\ RtIdle
    /\ ClIdle
    /\ PaIdle

\* Lines 509-524: allocate the zero result, build the pool, divide the rows
\* of img1 and start one goroutine per chunk.
CvStart ==
    /\ cPc = "start"
    /\ ~dividePanics(newWorkerPool(cNumCPU))
    /\ cResult' = ZeroGrid(Rows(cImg1) + Rows(cImg2) - 1, Cols(cImg1) + Cols(cImg2) - 1)
    /\ LET chunks == divide(newWorkerPool(cNumCPU), Rows(cImg1))
       IN  cWorkers' = [n \in 1..Len(chunks) |-> CvSpawn(chunks[n])]
    /\ cPc' = "run"
    /\ UNCHANGED <<cNumCPU, cImg1, cImg2>>
    /\ UNCHANGED notCv

\* pool.divide(h1) divides by zero workers: the call panics.
CvPanic ==
    /\ cPc = "start"
    /\ dividePanics(newWorkerPool(cNumCPU))
    /\ cPc' = "panic"
    /\ UNCHANGED <<cNumCPU, cImg1, cImg2, cResult, cWorkers>>
    /\ UNCHANGED notCv

CvRead(n) ==
    /\ cPc = "run"
    /\ cWorkers[n].pc = "read"
    /\ cWorkers' = [cWorkers EXCEPT ![n] = CvLoad(@, cResult)]
    /\ UNCHANGED <<cPc, cNumCPU, cImg1, cImg2, cResult>>
    /\ UNCHANGED notCv

CvWrite(n) ==
    /\ cPc = "run"
    /\ cWorkers[n].pc = "write"
    /\ LET w == cWorkers[n]
       IN  /\ cResult' = [cResult EXCEPT ![w.i + w.k][w.j + w.l] =
                                CvStoreValue(w, cImg1, cImg2, cResult)]
           /\ cWorkers' = [cWorkers EXCEPT ![n] = CvAdvance(w, cImg1, cImg2)]
    /\ UNCHANGED <<cPc, cNumCPU, cImg1, cImg2>>
    /\ UNCHANGED notCv

\* pool.wg.Wait() returns once every goroutine has called Done.
CvJoin ==
    /\ cPc = "run"
    /\ \A n \in 1..Len(cWorkers) : cWorkers[n].pc = "done"
    /\ cPc' = "done"
    /\ UNCHANGED <<cNumCPU, cImg1, cImg2, cResult, cWorkers>>
    /\ UNCHANGED notCv

NextConvolve ==
    \/ CvStart
    \/ CvPanic
    \/ \E n \in 1..Len(cWorkers) : CvRead(n)
    \/ \E n \in 1..Len(cWorkers) : CvWrite(n)
    \/ CvJoin

SpecConvolve == InitConvolve /\ [][NextConvolve]_vars

\* The sum of img1[i][j] * img2[r-i][c-j] over the pairs (i, j) in todo.
RECURSIVE CvSumTerms(_, _, _, _, _)
CvSumTerms(todo, img1, img2, r, c) ==
    IF todo = {} THEN 0
    ELSE LET p == CHOOSE q \in todo : TRUE
         IN  img1[p[1]][p[2]] * img2[r - p[1]][c - p[2]]
                 + CvSumTerms(todo \ {p}, img1, img2, r, c)

\* Cell (r, c) of the full linear convolution: the sum over i+k = r, j+l = c.
CvFullCell(img1, img2, r, c) ==
    CvSumTerms({p \in (0..(Rows(img1) - 1)) \X (0..(Cols(img1) - 1)) :
                   /\ r - p[1] \in 0..(Rows(img2) - 1)
                   /\ c - p[2] \in 0..(Cols(img2) - 1)},
               img1, img2, r, c)

\* C1: for every interleaving of the workers, convolve returns the grid of
\* size (h1+h2-1) x (w1+w2-1) whose cell (r, c) is the sum of
\* img1[i][j] * img2[k][l] over i+k = r, j+l = c: no read-modify-write of an
\* output cell is lost, and the result is that of the sequential convolve.
C1_ConvolveIsFullConvolution ==
    cPc = "done" =>
        /\ DOMAIN cResult = 0..(Rows(cImg1) + Rows(cImg2) - 2)
        /\ \A r \in DOMAIN cResult :
               /\ DOMAIN cResult[r] = 0..(Cols(cImg1) + Cols(cImg2) - 2)
               /\ \A c \in DOMAIN cResult[r] :
                      cResult[r][c] = CvFullCell(cImg1, cImg2, r, c)
        /\ cResult = convolveSeq(cImg1, cImg2)

\* With one worker (two CPUs) the parallel convolve is the sequential one.
CvSingleWorkerIsSequential ==
    (cPc = "done" /\ Len(cWorkers) = 1) =>
        /\ \A r \in DOMAIN cResult : \A c \in DOMAIN cResult[r] :
               cResult[r][c] = CvFullCell(cImg1, cImg2, r, c)
        /\ cResult = convolveSeq(cImg1, cImg2)

-----------------------------------------------------------------------------
(* float64 arithmetic of the scale routing                                 *)
(*                                                                         *)
(* int(float64(i) / float64(U) * float64(N)) is evaluated in IEEE-754      *)
(* binary64: the quotient is rounded to 53 significant bits (nearest,      *)
(* ties to even), the product is rounded again, and the conversion to int  *)
(* truncates. The operators below carry that out on bit sequences, for     *)
(* 0 <= i < U.                                                             *)

\* Significant bits of a float64.
MantissaBits == 53

\* The first n bits after the binary point of r/U (0 <= r < U), appended to
\* acc, and the remainder left over: [bits, rem].
RECURSIVE F64FracBits(_, _, _, _)
F64FracBits(r, U, n, acc) ==
    IF n = 0 THEN [bits |-> acc, rem |-> r]
    ELSE F64FracBits((2 * r) % U, U, n - 1, Append(acc, (2 * r) \div U))

\* Zeros between the binary point and the first 1 of r/U (0 < r < U).
RECURSIVE F64LeadingZeros(_, _)
F64LeadingZeros(r, U) == IF 2 * r >= U THEN 0 ELSE 1 + F64LeadingZeros(2 * r, U)

\* bits + 1 in the last place (the carry cannot leave the sequence: the
\* value stays below 1).
RECURSIVE F64Increment(_, _)
F64Increment(bits, n) ==
    IF n = 0 THEN bits
    ELSE IF bits[n] = 0 THEN [bits EXCEPT ![n] = 1]
    ELSE F64Increment([bits EXCEPT ![n] = 0], n - 1)

F64Bit(bits, n) == IF n \in 1..Len(bits) THEN bits[n] ELSE 0

\* float64(i) / float64(U) for 0 < i < U: the bits after the binary point of
\* the rounded quotient (leading zeros, then MantissaBits significant bits).
F64Quotient(i, U) ==
    LET len == F64LeadingZeros(i, U) + MantissaBits
        e == F64FracBits(i, U, len + 1, <<>>)
        kept == SubSeq(e.bits, 1, len)
        roundUp == e.bits[len + 1] = 1 /\ (e.rem # 0 \/ kept[len] = 1)
    IN  IF roundUp THEN F64Increment(kept, len) ELSE kept

\* The exact product of 0.bits and the integer N: [int, frac], computed from
\* the last bit upward, carry being the carry into position n.
RECURSIVE F64TimesInt(_, _, _, _)
F64TimesInt(bits, N, n, carry) ==
    IF n = 0 THEN [int |-> carry, frac |-> bits]
    ELSE LET t == bits[n] * N + carry
         IN  F64TimesInt([bits EXCEPT ![n] = t % 2], N, n - 1, t \div 2)

\* Number of bits of the non-negative integer v.
RECURSIVE F64BitLen(_)
F64BitLen(v) == IF v = 0 THEN 0 ELSE 1 + F64BitLen(v \div 2)

\* int(x) for the float64 x nearest to int + 0.frac: the integer part, plus
\* one when rounding to MantissaBits significant bits carries into it.
F64RoundedFloor(p) ==
    LET kept == MantissaBits - F64BitLen(p.int)
        roundUp == /\ F64Bit(p.frac, kept + 1) = 1
                   /\ \/ F64Bit(p.frac, kept) = 1
                      \/ \E n \in (kept + 2)..Len(p.frac) : p.frac[n] = 1
    IN  IF /\ p.int > 0 \/ F64Bit(p.frac, 1) = 1
           /\ roundUp
           /\ \A n \in 1..kept : F64Bit(p.frac, n) = 1
        THEN p.int + 1
        ELSE p.int

\* int(float64(i) / float64(U) * float64(N)) for 0 <= i < U.
F64ScaledIndexExact(i, U, N) == (i * N) \div U

F64ScaledIndex(i, U, N) ==
    IF i = 0 THEN 0
    ELSE LET q == F64Quotient(i, U)
         IN  F64RoundedFloor(F64TimesInt(q, N, Len(q), 0))

-----------------------------------------------------------------------------
(* createDirtyMapsFromACB                                                  *)

\* getUniqueFrequencies: the first occurrences, in order.
RECURSIVE getUniqueLoop(_, _, _)
getUniqueLoop(frequencies, n, unique) ==
    IF n > Len(frequencies) THEN unique
    ELSE getUniqueLoop(frequencies, n + 1,
             IF \E m \in 1..Len(unique) : unique[m] = frequencies[n]
             THEN unique
             ELSE Append(unique, frequencies[n]))

getUniqueFrequencies(frequencies) == getUniqueLoop(frequencies, 1, <<>>)

\* math.Exp(-(distance*distance) / (2*sigma*sigma)) with sigma = 1 + 2*scale,
\* in thousandths, rounded to nearest, for the squared distances d2 that
\* occur in images of up to 4 x 4 cells and for scales 0..4. At distance 0
\* the value is exp(0) = 1 for every scale.
GaussMilli(scale, d2) ==
    IF d2 = 0 THEN 1000
    ELSE LET row == CASE scale = 0 -> <<607, 368, 0, 135, 82, 0, 0, 18>>
                      [] scale = 1 -> <<946, 895, 0, 801, 757, 0, 0, 641>>
                      [] scale = 2 -> <<980, 961, 0, 923, 905, 0, 0, 852>>
                      [] scale = 3 -> <<990, 980, 0, 960, 950, 0, 0, 922>>
                      [] scale = 4 -> <<994, 988, 0, 976, 970, 0, 0, 952>>
         IN  row[d2]

\* The table one lookup goroutine fills: gaussianLookup[scale].
gaussianTable(scale, imageSize) ==
    LET center == GoDiv(imageSize, 2)
    IN  [i \in 0..(imageSize - 1) |-> [j \in 0..(imageSize - 1) |->
            GaussMilli(scale, (i - center) * (i - center) + (j - center) * (j - center))]]

\* scaleIndex of sample i: the float64 product truncated, clamped to the
\* last scale.
scaleIndex(i, numUnique, numScales) ==
    LET idx == F64ScaledIndex(i, numUnique, numScales)
    IN  IF idx >= numScales THEN numScales - 1 ELSE idx

\* localUpdates of one sample: amp * gaussianLookup[scaleIndex][x][y].
localUpdates(amp, table) ==
    [x \in DOMAIN table |-> [y \in DOMAIN table[x] |-> amp * table[x][y]]]

\* grid + updates, cell by cell (the loop under the mutex).
addGrid(grid, updates) ==
    [x \in DOMAIN grid |-> [y \in DOMAIN grid[x] |-> grid[x][y] + updates[x][y]]]

\* One execution of the body of the accumulation loop for sample i (lines
\* 202-226): a sample with no frequency is skipped, any other is merged into
\* the dirty map of its scale.
processSample(dirtyMaps, i, amp, numUnique, numScales, imageSize) ==
    IF i >= numUnique THEN dirtyMaps
    ELSE LET idx == scaleIndex(i, numUnique, numScales)
         IN  [dirtyMaps EXCEPT ![idx] =
                 addGrid(@, localUpdates(amp, gaussianTable(idx, imageSize)))]

\* A mutex.Lock() that returns whoever holds the mutex.
MutexCanLockAlways(holder) == TRUE

\* A mutex.Lock() that never returns.
MutexCanLockNever(holder) == FALSE

\* mutex.Lock() returns only while no other goroutine holds the mutex.
MutexCanLock(holder) == holder = 0

\* The sequential draft: samples in index order, stopping at the first
\* index that has no frequency.
RECURSIVE createDirtyMapsSeqLoop(_, _, _, _, _, _)
createDirtyMapsSeqLoop(amps, numUnique, numScales, imageSize, i, dirtyMaps) ==
    IF i >= Len(amps) \/ i >= numUnique THEN dirtyMaps
    ELSE LET idx == scaleIndex(i, numUnique, numScales)
         IN  createDirtyMapsSeqLoop(amps, numUnique, numScales, imageSize, i + 1,
                 [dirtyMaps EXCEPT ![idx] =
                     addGrid(@, localUpdates(amps[i + 1], gaussianTable(idx, imageSize)))])

createDirtyMapsSeq(freqs, amps, numScales, imageSize) ==
    createDirtyMapsSeqLoop(amps, Len(getUniqueFrequencies(freqs)), numScales, imageSize, 0,
        [sc \in 0..(numScales - 1) |-> ZeroGrid(imageSize, imageSize)])

\* The goroutine started for chunk <<start, end>> of the amplitudes.
DmSpawn(chunk) ==
    [pc |-> "next", i |-> chunk[1], end |-> chunk[2], scaleIndex |-> 0,
     local |-> <<>>, tmp |-> <<>>]

-----------------------------------------------------------------------------
(* SpecDirty                                                               *)

\* n distinct frequencies followed by dup repetitions of the first ones.
DmFrequencies(n, dup) == [m \in 1..(n + dup) |-> IF m <= n THEN m ELSE m - n]

InitDirty ==
    /\ mPc = "start"
    /\ mNumCPU \in 1..DmMaxCPU
    /\ \E n \in 0..DmMaxUnique, dup \in 0..1 :
           /\ dup <= n
           /\ mFreqs = DmFrequencies(n, dup)
    /\ \E n \in 0..DmMaxAmps : mAmps = [m \in 1..n |-> m]
    /\ mNumScales \in 1..DmMaxScales
    /\ mImageSize \in 1..DmMaxSize
    /\ mUnique = <<>>
    /\ mLookup = <<>>
    /\ mLookupDone = {}
    /\ mDirty = <<>>
    /\ mMutex = 0
    /\ mWorkers = <<>>
    /\ DivIdle
    /\ CvIdle
    /\ RtIdle
    /\ ClIdle
    /\ PaIdle

\* Lines 155-191: zero dirty maps, uniqueFreqs, and one lookup goroutine
\* started per scale.
DmStart ==
    /\ mPc = "start"
    /\ mDirty' = [sc \in 0..(mNumScales - 1) |-> ZeroGrid(mImageSize, mImageSize)]
    /\ mUnique' = getUniqueFrequencies(mFreqs)
    /\ mLookup' = [sc \in 0..(mNumScales - 1) |-> "nil"]
    /\ mLookupDone' = {}
    /\ mPc' = "lookup"
    /\ UNCHANGED <<mNumCPU, mFreqs, mAmps, mNumScales, mImageSize, mMutex, mWorkers>>
    /\ UNCHANGED notDm

\* Lines 178-190: the lookup goroutine of one scale.
DmLookupTask(sc) ==
    /\ mPc = "lookup"
    /\ sc \notin mLookupDone
    /\ mLookup' = [mLookup EXCEPT ![sc] = gaussianTable(sc, mImageSize)]
    /\ mLookupDone' = mLookupDone \cup {sc}
    /\ UNCHANGED <<mPc, mNumCPU, mFreqs, mAmps, mNumScales, mImageSize, mUnique,
                   mDirty, mMutex, mWorkers>>
    /\ UNCHANGED notDm

\* A wg.Wait() that returns at once.
lookupBarrierSkipped(done, numScales) == TRUE

\* wg.Wait() returns once every lookup goroutine is done.
lookupBarrierOpen(done, numScales) == done = 0..(numScales - 1)

\* Lines 192-198: after the barrier, the pool divides the amplitudes and one
\* accumulation goroutine is started per chunk.
DmPool ==
    /\ mPc = "lookup"
    /\ lookupBarrierOpen(mLookupDone, mNumScales)
    /\ ~dividePanics(newWorkerPool(mNumCPU))
    /\ LET chunks == divide(newWorkerPool(mNumCPU), Len(mAmps))
       IN  mWorkers' = [n \in 1..Len(chunks) |-> DmSpawn(chunks[n])]
    /\ mPc' = "accumulate"
    /\ UNCHANGED <<mNumCPU, mFreqs, mAmps, mNumScales, mImageSize, mUnique,
                   mLookup, mLookupDone, mDirty, mMutex>>
    /\ UNCHANGED notDm

\* pool.divide(len(data.Amplitudes)) divides by zero workers: the call panics.
DmPanic ==
    /\ mPc = "lookup"
    /\ lookupBarrierOpen(mLookupDone, mNumScales)
    /\ dividePanics(newWorkerPool(mNumCPU))
    /\ mPc' = "panic"
    /\ UNCHANGED <<mNumCPU, mFreqs, mAmps, mNumScales, mImageSize, mUnique,
                   mLookup, mLookupDone, mDirty, mMutex, mWorkers>>
    /\ UNCHANGED notDm

\* Lines 201-218: the loop head and the lock-free part of the body: leave
\* the loop, skip a sample that has no frequency, or compute scaleIndex and
\* localUpdates.
DmNext(n) ==
    /\ mPc = "accumulate"
    /\ mWorkers[n].pc = "next"
    /\ LET w == mWorkers[n]
       IN  mWorkers' = [mWorkers EXCEPT ![n] =
               IF ~(w.i < w.end /\ w.i < Len(mAmps)) THEN [w EXCEPT !.pc = "done"]
               ELSE IF w.i >= Len(mUnique) THEN [w EXCEPT !.i = w.i + 1]
               ELSE LET idx == scaleIndex(w.i, Len(mUnique), mNumScales)
                    IN  [w EXCEPT !.scaleIndex = idx,
                                  !.local = localUpdates(mAmps[w.i + 1], mLookup[idx]),
                                  !.pc = "lock"]]
    /\ UNCHANGED <<mPc, mNumCPU, mFreqs, mAmps, mNumScales, mImageSize, mUnique,
                   mLookup, mLookupDone, mDirty, mMutex>>
    /\ UNCHANGED notDm

\* Line 220: mutex.Lock().
DmLock(n) ==
    /\ mPc = "accumulate"
    /\ mWorkers[n].pc = "lock"
    /\ MutexCanLock(mMutex)
    /\ mMutex' = n
    /\ mWorkers' = [mWorkers EXCEPT ![n].pc = "read"]
    /\ UNCHANGED <<mPc, mNumCPU, mFreqs, mAmps, mNumScales, mImageSize, mUnique,
                   mLookup, mLookupDone, mDirty>>
    /\ UNCHANGED notDm

\* Lines 221-225, the loads of dirtyMaps[scaleIndex][x][y] += ...
DmRead(n) ==
    /\ mPc = "accumulate"
    /\ mWorkers[n].pc = "read"
    /\ mWorkers' = [mWorkers EXCEPT ![n].tmp = mDirty[mWorkers[n].scaleIndex],
                                    ![n].pc = "write"]
    /\ UNCHANGED <<mPc, mNumCPU, mFreqs, mAmps, mNumScales, mImageSize, mUnique,
                   mLookup, mLookupDone, mDirty, mMutex>>
    /\ UNCHANGED notDm

\* Lines 221-225, the stores.
DmWrite(n) ==
    /\ mPc = "accumulate"
    /\ mWorkers[n].pc = "write"
    /\ mDirty' = [mDirty EXCEPT ![mWorkers[n].scaleIndex] =
                      addGrid(mWorkers[n].tmp, mWorkers[n].local)]
    /\ mWorkers' = [mWorkers EXCEPT ![n].pc = "unlock"]
    /\ UNCHANGED <<mPc, mNumCPU, mFreqs, mAmps, mNumScales, mImageSize, mUnique,
                   mLookup, mLookupDone, mMutex>>
    /\ UNCHANGED notDm

\* Line 226: mutex.Unlock(), then i++.
DmUnlock(n) ==
    /\ mPc = "accumulate"
    /\ mWorkers[n].pc = "unlock"
    /\ mMutex' = 0
    /\ mWorkers' = [mWorkers EXCEPT ![n].pc = "next", ![n].i = @ + 1]
    /\ UNCHANGED <<mPc, mNumCPU, mFreqs, mAmps, mNumScales, mImageSize, mUnique,
                   mLookup, mLookupDone, mDirty>>
    /\ UNCHANGED notDm

\* Line 230: pool.wg.Wait() returns once every accumulation goroutine is done.
DmJoin ==
    /\ mPc = "accumulate"
    /\ \A n \in 1..Len(mWorkers) : mWorkers[n].pc = "done"
    /\ mPc' = "done"
    /\ UNCHANGED <<mNumCPU, mFreqs, mAmps, mNumScales, mImageSize, mUnique,
                   mLookup, mLookupDone, mDirty, mMutex, mWorkers>>
    /\ UNCHANGED notDm

NextDirty ==
    \/ DmStart
    \/ \E sc \in 0..(mNumScales - 1) : DmLookupTask(sc)
    \/ DmPool
    \/ DmPanic
    \/ \E n \in 1..Len(mWorkers) : DmNext(n)
    \/ \E n \in 1..Len(mWorkers) : DmLock(n)
    \/ \E n \in 1..Len(mWorkers) : DmRead(n)
    \/ \E n \in 1..Len(mWorkers) : DmWrite(n)
    \/ \E n \in 1..Len(mWorkers) : DmUnlock(n)
    \/ DmJoin

SpecDirty == InitDirty /\ [][NextDirty]_vars

\* The sum of amps[i+1] * GaussMilli(sc, d2) over the sample indices i in todo.
RECURSIVE DmSumContributions(_, _, _, _)
DmSumContributions(todo, amps, sc, d2) ==
    IF todo = {} THEN 0
    ELSE LET i == CHOOSE q \in todo : TRUE
         IN  amps[i + 1] * GaussMilli(sc, d2) + DmSumContributions(todo \ {i}, amps, sc, d2)

\* The samples routed to scale sc: those that have a frequency and whose
\* scaleIndex is sc.
DmRoutedTo(sc) ==
    {i \in 0..(Len(mAmps) - 1) :
        i < Len(mUnique) /\ scaleIndex(i, Len(mUnique), mNumScales) = sc}

\* The goroutines that are between mutex.Lock() and mutex.Unlock().
DmInCriticalSection ==
    {n \in 1..Len(mWorkers) : mWorkers[n].pc \in {"read", "write", "unlock"}}

\* C2: for every interleaving of the accumulation workers, at most one
\* worker at a time adds into the dirty maps, and once all workers have
\* joined every dirty-map cell is the sum of the contributions of the
\* samples routed to that scale, whatever the order of the merges: the dirty
\* maps of the sequential draft.
C2_MergesAreExclusiveAndComplete ==
    /\ Cardinality(DmInCriticalSection) <= 1
    /\ mPc = "done" =>
           /\ mDirty = createDirtyMapsSeq(mFreqs, mAmps, mNumScales, mImageSize)
           /\ \A sc \in 0..(mNumScales - 1) :
                  \A x \in 0..(mImageSize - 1), y \in 0..(mImageSize - 1) :
                      LET c == GoDiv(mImageSize, 2)
                      IN  mDirty[sc][x][y] =
                              DmSumContributions(DmRoutedTo(sc), mAmps, sc,
                                  (x - c) * (x - c) + (y - c) * (y - c))

\* All workers have joined after two of them merged samples into the same
\* dirty map.
C2_Witness ==
    /\ mPc = "done"
    /\ Len(mWorkers) = 2
    /\ \E i \in DmRoutedTo(0), j \in DmRoutedTo(0) :
           i < mWorkers[1].end /\ j >= mWorkers[1].end

-----------------------------------------------------------------------------
(* SpecRoute                                                               *)

InitRoute ==
    /\ rPc = "start"
    /\ rNumUnique \in 0..RtMaxUnique
    /\ rNumScales \in 1..RtMaxScales
    /\ rI = 0
    /\ rAmp = 0
    /\ rBefore = [sc \in 0..(rNumScales - 1) |-> ZeroGrid(1, 1)]
    /\ rAfter = <<>>
    /\ DivIdle
    /\ CvIdle
    /\ DmIdle
    /\ ClIdle
    /\ PaIdle

\* The loop body runs for sample i, holding amplitude amp.
RtSample(i, amp) ==
    /\ rPc = "start"
    /\ rI' = i
    /\ rAmp' = amp
    /\ rAfter' = processSample(rBefore, i, amp, rNumUnique, rNumScales, 1)
    /\ rPc' = "routed"
    /\ UNCHANGED <<rNumUnique, rNumScales, rBefore>>
    /\ UNCHANGED notRt

NextRoute == \E i \in 0..RtMaxIndex, amp \in 1..RtMaxAmp : RtSample(i, amp)

SpecRoute == InitRoute /\ [][NextRoute]_vars

\* The dirty maps the execution changed.
RtChanged == {sc \in 0..(rNumScales - 1) : rAfter[sc] # rBefore[sc]}

\* min(floor(i*N/U), N-1)
RtExactIndex == Min((rI * rNumScales) \div rNumUnique, rNumScales - 1)

\* C10 as stated: every sample with index i < U adds its contribution to
\* exactly one dirty map, the one at index min(floor(i*N/U), N-1), and leaves
\* every other dirty map unchanged; samples with i >= U contribute to none.
C10_RoutedToExactIndex ==
    rPc = "routed" =>
        /\ rI < rNumUnique =>
               /\ RtChanged = {RtExactIndex}
               /\ rAfter[RtExactIndex][0][0] = rBefore[RtExactIndex][0][0] + rAmp * 1000
        /\ rI >= rNumUnique => RtChanged = {}

\* What the code does guarantee: the one dirty map a sample with i < U is
\* added to is the one at min(floor(i*N/U), N-1), or the one below it when
\* i*N/U is a whole number (the float64 product of i/U and N can fall just
\* short of it).
RtRoutedToOneScale ==
    rPc = "routed" =>
        /\ rI < rNumUnique =>
               \E sc \in 0..(rNumScales - 1) :
                   /\ RtChanged = {sc}
                   /\ rAfter[sc][0][0] = rBefore[sc][0][0] + rAmp * 1000
                   /\ \/ sc = RtExactIndex
                      \/ /\ sc = RtExactIndex - 1
                         /\ (rI * rNumScales) % rNumUnique = 0
        /\ rI >= rNumUnique => RtChanged = {}

\* A sample with a frequency has been routed one map below floor(i*N/U).
RtShortfallReached ==
    /\ rPc = "routed"
    /\ rI < rNumUnique
    /\ RtChanged = {RtExactIndex - 1}

-----------------------------------------------------------------------------
(* convolve as a call: the grids it can return                             *)
(*                                                                         *)
(* The goroutines race on the cells of result (SpecConvolve). To a caller  *)
(* the call returns one of the grids below: each cell holds one of the     *)
(* values the interleavings of the loads and stores on that cell can       *)
(* leave in it. Cells are distinct memory locations and the Go memory      *)
(* model orders racing accesses to different locations in no way, so the   *)
(* per-cell results combine freely.                                        *)

\* The products the goroutine of chunk adds into cell (r, c), in loop order,
\* from flattened (i, j) position n on, appended to acc.
RECURSIVE cellContribs(_, _, _, _, _, _, _)
cellContribs(img1, img2, chunk, r, c, n, acc) ==
    LET w1 == Cols(img1)
        i == chunk[1] + n \div w1
        j == n % w1
    IN  IF i >= chunk[2] THEN acc
        ELSE cellContribs(img1, img2, chunk, r, c, n + 1,
                 IF (r - i) \in DOMAIN img2 /\ (c - j) \in DOMAIN img2[r - i]
                 THEN Append(acc, img1[i][j] * img2[r - i][c - j])
                 ELSE acc)

\* One load or store of one goroutine on the cell: st = [val, ws], ws the
\* goroutines' [todo, loaded, tmp].
raceSuccessors(st) ==
    {IF st.ws[n].loaded
     THEN [val |-> st.ws[n].tmp + Head(st.ws[n].todo),
           ws |-> [st.ws EXCEPT ![n] = [todo |-> Tail(@.todo), loaded |-> FALSE, tmp |-> 0]]]
     ELSE [val |-> st.val,
           ws |-> [st.ws EXCEPT ![n] = [todo |-> @.todo, loaded |-> TRUE, tmp |-> st.val]]]
     : n \in {m \in 1..Len(st.ws) : st.ws[m].todo # <<>>}}

RECURSIVE raceReach(_, _)
raceReach(frontier, seen) ==
    IF frontier = {} THEN seen
    ELSE LET next == (UNION {raceSuccessors(st) : st \in frontier}) \ seen
         IN  raceReach(next, seen \cup next)

\* The values the goroutines can leave in a cell they add contribs[n] into,
\* n = 1..workers, starting from 0.
cellOutcomes(contribs) ==
    LET init == [val |-> 0,
                 ws |-> [n \in 1..Len(contribs) |->
                            [todo |-> contribs[n], loaded |-> FALSE, tmp |-> 0]]]
        reached == raceReach({init}, {init})
    IN  {st.val : st \in {t \in reached : \A n \in 1..Len(t.ws) : t.ws[n].todo = <<>>}}

RECURSIVE gridsLoop(_, _, _, _, _, _)
gridsLoop(img1, img2, chunks, cells, n, acc) ==
    IF n > Len(cells) THEN acc
    ELSE LET r == cells[n][1]
             c == cells[n][2]
             vals == cellOutcomes([m \in 1..Len(chunks) |->
                         cellContribs(img1, img2, chunks[m], r, c, 0, <<>>)])
         IN  gridsLoop(img1, img2, chunks, cells, n + 1,
                 {[g EXCEPT ![r][c] = v] : g \in acc, v \in vals})

\* The grids convolve(img1, img2) can return on a host whose pool has
\* workers > 0 workers.
convolveOutcomes(img1, img2, workers) ==
    LET zero == ZeroGrid(Rows(img1) + Rows(img2) - 1, Cols(img1) + Cols(img2) - 1)
    IN  gridsLoop(img1, img2, divide(workers, Rows(img1)), CellsInOrder(zero), 1, {zero})

\* Every result that the step-by-step convolve of SpecConvolve can return is
\* one of convolveOutcomes.
CvResultIsAnOutcome ==
    cPc = "done" => cResult \in convolveOutcomes(cImg1, cImg2, Len(cWorkers))

-----------------------------------------------------------------------------
(* float64 values of the CLEAN loop                                        *)
(*                                                                         *)
(* Intensities (dirty maps, clean components, the returned image) are      *)
(* fixed-point numbers: the integer v stands for v * 1e-7, and a quotient  *)
(* is rounded toward zero to that grid. PSF, basis-function and bias       *)
(* values are whole numbers. The three non-finite float64 values are kept  *)
(* apart from the finite ones.                                             *)

PosInf == 1000000000
NegInf == -1000000000
NaN == 2000000000

\* 1e-5, the two convergence thresholds, in units of 1e-7.
Threshold == 100
\* gainFactor = 0.1 = 1 / GainDen
GainDen == 10
\* maxIterations
MaxIterations == 50

IsFinite(a) == a \notin {PosInf, NegInf, NaN}

FNeg(a) == IF a = NaN THEN NaN ELSE -a

\* a + b
FAdd(a, b) ==
    IF a = NaN \/ b = NaN THEN NaN
    ELSE IF ~IsFinite(a) /\ ~IsFinite(b) THEN (IF a = b THEN a ELSE NaN)
    ELSE IF ~IsFinite(a) THEN a
    ELSE IF ~IsFinite(b) THEN b
    ELSE a + b

\* a - b
FSub(a, b) == FAdd(a, FNeg(b))

\* a * n, for a whole finite n
FMulInt(a, n) ==
    IF a = NaN THEN NaN
    ELSE IF ~IsFinite(a)
         THEN (IF n = 0 THEN NaN ELSE IF n > 0 THEN a ELSE -a)
    ELSE a * n

\* a / n, for a whole finite n: x/0 is +Inf, -Inf or (0/0) NaN
FDivInt(a, n) ==
    IF a = NaN THEN NaN
    ELSE IF n = 0
         THEN (IF a = 0 THEN NaN ELSE IF a > 0 THEN PosInf ELSE NegInf)
    ELSE IF ~IsFinite(a) THEN (IF n > 0 THEN a ELSE -a)
    ELSE GoDiv(a, n)

\* gainFactor * a
FGain(a) == FDivInt(a, GainDen)

\* a > b and a < b: false when either is NaN
FGt(a, b) == a # NaN /\ b # NaN /\ a > b
FLt(a, b) == a # NaN /\ b # NaN /\ a < b

\* math.Abs
FAbs(a) == IF a = NaN THEN NaN ELSE IF a < 0 THEN -a ELSE a

-----------------------------------------------------------------------------
(* The steps of MultiScaleClean, as functions of grids                     *)

\* A stack of images is a sequence of references into the heap, scale i at
\* index i; deref reads the grids it refers to.
deref(heap, refs) == [i \in DOMAIN refs |-> heap[refs[i]]]

\* rescaleDirtyMaps: a freshly made stack, cell by cell
\* scaleBias[i] * dirtyMaps[i][j][k]; no grid of the heap is written.
rescaleDirtyMaps(heap, dirtyMaps, scaleBias) ==
    [heap |-> heap,
     rescaled |-> [i \in DOMAIN dirtyMaps |->
         [j \in DOMAIN heap[dirtyMaps[i]] |->
             [k \in DOMAIN heap[dirtyMaps[i]][j] |->
                 FMulInt(heap[dirtyMaps[i]][j][k], scaleBias[i])]]]]

\* A scan that also moves on to a later cell holding the same value.
RECURSIVE maxPositionScanLast(_, _, _, _)
maxPositionScanLast(img, cells, n, best) ==
    IF n > Len(cells) THEN best
    ELSE LET val == img[cells[n][1]][cells[n][2]]
         IN  maxPositionScanLast(img, cells, n + 1,
                 IF val # NaN /\ best.val # NaN /\ val >= best.val
                 THEN [pos |-> cells[n], val |-> val] ELSE best)

\* identifyMaxPosition: the scan over the cells from position n, with the
\* running maximum best = [pos, val].
RECURSIVE maxPositionScan(_, _, _, _)
maxPositionScan(img, cells, n, best) ==
    IF n > Len(cells) THEN best
    ELSE LET val == img[cells[n][1]][cells[n][2]]
         IN  maxPositionScan(img, cells, n + 1,
                 IF FGt(val, best.val) THEN [pos |-> cells[n], val |-> val] ELSE best)

identifyMaxPosition(img) ==
    maxPositionScan(img, CellsInOrder(img), 1, [pos |-> <<0, 0>>, val |-> NegInf])

\* identifyMaxScale: the scan over the scales from scale i, with the running
\* maximum best = [scale, val].
RECURSIVE maxScaleScan(_, _, _)
maxScaleScan(rescaled, i, best) ==
    IF i \notin DOMAIN rescaled THEN best.scale
    ELSE LET inScale == maxPositionScan(rescaled[i], CellsInOrder(rescaled[i]), 1,
                                        [pos |-> <<0, 0>>, val |-> best.val])
         IN  maxScaleScan(rescaled, i + 1,
                 IF FGt(inScale.val, best.val)
                 THEN [scale |-> i, val |-> inScale.val] ELSE best)

identifyMaxScale(rescaled) == maxScaleScan(rescaled, 0, [scale |-> 0, val |-> NegInf])

\* maxValue
maxValue(img) == identifyMaxPosition(img).val

\* updateCleanComponents, given conv = convolve(basisFunction, psf): basis
\* cell (i, j) is added at maxPos + (i, j) - (len(basis)/2, len(basis[i])/2)
\* when that lies inside cleanComponents.
updateCleanComponents(cleanComponents, basisFunction, maxPos, maxIntensity, conv) ==
    LET normFactor == FDivInt(maxIntensity, maxValue(conv))
    IN  [x \in DOMAIN cleanComponents |-> [y \in DOMAIN cleanComponents[x] |->
            LET i == x - maxPos[1] + GoDiv(Rows(basisFunction), 2)
                j == y - maxPos[2] + GoDiv(Cols(basisFunction), 2)
            IN  IF i \in DOMAIN basisFunction /\ j \in DOMAIN basisFunction[i]
                THEN FAdd(cleanComponents[x][y],
                          FMulInt(FGain(normFactor), basisFunction[i][j]))
                ELSE cleanComponents[x][y]]]

\* The subtraction of updateDirtyMaps for one scale (lines 445-464):
\* normFactor * crossConv[jj][kk] is subtracted at
\* maxPos + (jj, kk) - (len(crossConv)/2, len(crossConv[0])/2).
subtractCrossConv(dirtyMap, crossConv, maxPos, maxIntensity) ==
    LET normFactor == FDivInt(FGain(maxIntensity), maxValue(crossConv))
    IN  [x \in DOMAIN dirtyMap |-> [y \in DOMAIN dirtyMap[x] |->
            LET jj == x - maxPos[1] + GoDiv(Rows(crossConv), 2)
                kk == y - maxPos[2] + GoDiv(Cols(crossConv), 2)
            IN  IF jj \in DOMAIN crossConv /\ kk \in DOMAIN crossConv[jj]
                THEN FSub(dirtyMap[x][y], FMulInt(normFactor, crossConv[jj][kk]))
                ELSE dirtyMap[x][y]]]

\* stoppingCondition: no cell with math.Abs(val) > threshold.
stoppingCondition(dirtyMaps) ==
    \A i \in DOMAIN dirtyMaps : \A x \in DOMAIN dirtyMaps[i] :
        \A y \in DOMAIN dirtyMaps[i][x] : ~FGt(FAbs(dirtyMaps[i][x][y]), Threshold)

\* addResiduals: residualMap accumulates the dirty maps in scale order,
\* then cleanedImage = cleanComponents + residualMap.
RECURSIVE residualLoop(_, _, _)
residualLoop(dirtyMaps, i, residualMap) ==
    IF i \notin DOMAIN dirtyMaps THEN residualMap
    ELSE residualLoop(dirtyMaps, i + 1,
             [x \in DOMAIN residualMap |-> [y \in DOMAIN residualMap[x] |->
                 FAdd(residualMap[x][y], dirtyMaps[i][x][y])]])

\* Residuals taken from the first scale only.
addResidualsFirstScale(cleanComponents, dirtyMaps) ==
    [x \in DOMAIN cleanComponents |-> [y \in DOMAIN cleanComponents[x] |->
        FAdd(cleanComponents[x][y], dirtyMaps[0][x][y])]]

addResiduals(cleanComponents, dirtyMaps) ==
    LET residualMap == residualLoop(dirtyMaps, 0,
                           ZeroGrid(Rows(dirtyMaps[0]), Cols(dirtyMaps[0])))
    IN  [x \in DOMAIN cleanComponents |-> [y \in DOMAIN cleanComponents[x] |->
            FAdd(cleanComponents[x][y], residualMap[x][y])]]

\* A check that lets only negative intensities end the loop.
intensityExhaustedBelowZero(maxIntensity) == FLt(maxIntensity, 0)

\* The check after identifyMaxPosition: maxIntensity < 1e-5.
intensityExhausted(maxIntensity) == FLt(maxIntensity, Threshold)

\* cleanComponents: a fresh grid of zeros with the dimensions of unclean[0].
newCleanComponents(heap, unclean) ==
    LET ref == Len(heap) + 1
    IN  [heap |-> [r \in 1..ref |->
                      IF r < ref THEN heap[r]
                      ELSE ZeroGrid(Rows(heap[unclean[0]]), Cols(heap[unclean[0]]))],
         ref |-> ref]

\* currentDirtyMaps sharing the caller's grids instead of copying them.
shareDirtyMaps(heap, unclean) == [heap |-> heap, refs |-> unclean]

\* currentDirtyMaps: fresh rows, each filled by copy() from the caller's row.
copyDirtyMaps(heap, unclean) ==
    LET n == Cardinality(DOMAIN unclean)
        base == Len(heap)
    IN  [heap |-> [r \in 1..(base + n) |->
                      IF r <= base THEN heap[r] ELSE heap[unclean[r - base - 1]]],
         refs |-> [i \in 0..(n - 1) |-> base + 1 + i]]

-----------------------------------------------------------------------------
(* SpecClean                                                               *)

\* hi at cell p, lo everywhere else.
KPeak(p, hi, lo) ==
    [i \in 0..(KRows - 1) |-> [j \in 0..(KCols - 1) |-> IF <<i, j>> = p THEN hi ELSE lo]]

KCentre == <<GoDiv(KRows, 2), GoDiv(KCols, 2)>>

\* Dirty maps: empty; one source of 1.5e-5; a source next to a negative
\* bowl; a source of 3e-3 on a background of 2e-5.
KDirtyMaps ==
    {KPeak(KCentre, 0, 0), KPeak(KCentre, 150, 0), KPeak(<<0, 0>>, 150, -120),
     KPeak(KCentre, 30000, 200)}

\* PSFs: all zero; a delta; a lobe pattern.
KPsfImages == {KPeak(KCentre, 0, 0), KPeak(KCentre, 1, 0), KPeak(KCentre, 2, -1)}

\* Basis functions: all zero; a peak on a pedestal.
KBasisImages == {KPeak(KCentre, 0, 0), KPeak(KCentre, 2, 1)}

\* scaleBias: flat, favouring the small scales, favouring the large ones.
KBiases(n) ==
    {[i \in 0..(n - 1) |-> 1], [i \in 0..(n - 1) |-> n - i], [i \in 0..(n - 1) |-> i + 1]}

InitClean ==
    /\ kPc = "start"
    /\ kNumCPU \in 1..KMaxCPU
    /\ \E n \in 1..KMaxScales :
         /\ kUnclean = [i \in 0..(n - 1) |-> i + 1]
         /\ kPsfs = [i \in 0..(n - 1) |-> n + i + 1]
         /\ kBasis = [i \in 0..(n - 1) |-> 2 * n + i + 1]
         /\ kBias \in KBiases(n)
         /\ \E d \in [1..n -> KDirtyMaps], p \in [1..n -> KPsfImages], b \in KBasisImages :
                kHeap = [r \in 1..(3 * n) |->
                            IF r <= n THEN d[r] ELSE IF r <= 2 * n THEN p[r - n] ELSE b]
    /\ kCaller = [unclean |-> deref(kHeap, kUnclean), psfs |-> deref(kHeap, kPsfs),
                  basisFuncs |-> deref(kHeap, kBasis), scaleBias |-> kBias]
    /\ kCC = 0
    /\ kCur = <<>>
    /\ kIter = 0
    /\ kRescaled = <<>>
    /\ kMaxScale = 0
    /\ kMaxPos = <<0, 0>>
    /\ kMaxIntensity = 0
    /\ kCross = <<>>
    /\ kCrossDone = {}
    /\ kTasks = <<>>
    /\ kExit = "none"
    /\ kImage = <<>>
    /\ DivIdle
    /\ CvIdle
    /\ DmIdle
    /\ RtIdle
    /\ PaIdle

kInputs == <<kNumCPU, kUnclean, kPsfs, kBasis, kBias, kCaller>>
kSelection == <<kMaxScale, kMaxPos, kMaxIntensity>>

\* Lines 319-335: cleanComponents and currentDirtyMaps are made.
KAllocate ==
    /\ kPc = "start"
    /\ LET cc == newCleanComponents(kHeap, kUnclean)
           cur == copyDirtyMaps(cc.heap, kUnclean)
       IN  /\ kCC' = cc.ref
           /\ kCur' = cur.refs
           /\ kHeap' = cur.heap
    /\ kPc' = "loop"
    /\ UNCHANGED <<kInputs, kIter, kRescaled, kSelection, kCross, kCrossDone, kTasks,
                   kExit, kImage>>
    /\ UNCHANGED notCl

\* Line 337, condition true, and line 339.
KRescale ==
    /\ kPc = "loop"
    /\ kIter < MaxIterations
    /\ LET r == rescaleDirtyMaps(kHeap, kCur, kBias)
       IN  /\ kRescaled' = r.rescaled
           /\ kHeap' = r.heap
    /\ kPc' = "select"
    /\ UNCHANGED <<kInputs, kCC, kCur, kIter, kSelection, kCross, kCrossDone, kTasks,
                   kExit, kImage>>
    /\ UNCHANGED notCl

\* Line 337, condition false.
KBudget ==
    /\ kPc = "loop"
    /\ kIter >= MaxIterations
    /\ kPc' = "exit"
    /\ kExit' = "budget"
    /\ UNCHANGED <<kInputs, kHeap, kCC, kCur, kIter, kRescaled, kSelection, kCross,
                   kCrossDone, kTasks, kImage>>
    /\ UNCHANGED notCl

\* Lines 340-347: the scale is selected on the rescaled maps, the position
\* and the intensity on the working map of that scale.
KSelect ==
    /\ kPc = "select"
    /\ LET maxScale == identifyMaxScale(kRescaled)
           found == identifyMaxPosition(kHeap[kCur[maxScale]])
       IN  /\ kMaxScale' = maxScale
           /\ kMaxPos' = found.pos
           /\ kMaxIntensity' = found.val
           /\ IF intensityExhausted(found.val)
              THEN kPc' = "exit" /\ kExit' = "intensity"
              ELSE kPc' = "updateCC" /\ kExit' = kExit
    /\ kRescaled' = <<>>
    /\ UNCHANGED <<kInputs, kHeap, kCC, kCur, kIter, kCross, kCrossDone, kTasks, kImage>>
    /\ UNCHANGED notCl

\* Line 349, on a host where newWorkerPool gives no worker: the convolve
\* inside updateCleanComponents panics in divide.
KPanic ==
    /\ kPc = "updateCC"
    /\ dividePanics(newWorkerPool(kNumCPU))
    /\ kPc' = "panic"
    /\ UNCHANGED <<kInputs, kHeap, kCC, kCur, kIter, kRescaled, kSelection, kCross,
                   kCrossDone, kTasks, kExit, kImage>>
    /\ UNCHANGED notCl

\* Line 349: updateCleanComponents, with any result its convolve can give;
\* then lines 427-430 of updateDirtyMaps.
KUpdateCleanComponents ==
    /\ kPc = "updateCC"
    /\ ~dividePanics(newWorkerPool(kNumCPU))
    /\ \E conv \in convolveOutcomes(kHeap[kBasis[kMaxScale]], kHeap[kPsfs[kMaxScale]],
                                    newWorkerPool(kNumCPU)) :
           kHeap' = [kHeap EXCEPT ![kCC] =
                        updateCleanComponents(kHeap[kCC], kHeap[kBasis[kMaxScale]],
                                              kMaxPos, kMaxIntensity, conv)]
    /\ kCross' = [i \in DOMAIN kCur |-> <<>>]
    /\ kCrossDone' = {}
    /\ kPc' = "crossconv"
    /\ UNCHANGED <<kInputs, kCC, kCur, kIter, kRescaled, kSelection, kTasks, kExit, kImage>>
    /\ UNCHANGED notCl

\* Lines 432-435: the goroutine of scale idx stores its cross-convolution.
KCrossConv(idx) ==
    /\ kPc = "crossconv"
    /\ idx \in DOMAIN kCur
    /\ idx \notin kCrossDone
    /\ \E conv \in convolveOutcomes(kHeap[kBasis[kMaxScale]], kHeap[kPsfs[idx]],
                                    newWorkerPool(kNumCPU)) :
           kCross' = [kCross EXCEPT ![idx] = conv]
    /\ kCrossDone' = kCrossDone \cup {idx}
    /\ UNCHANGED <<kInputs, kPc, kHeap, kCC, kCur, kIter, kRescaled, kSelection, kTasks,
                   kExit, kImage>>
    /\ UNCHANGED notCl

\* Goroutines that each run from their start to the end of the last chunk.
subtractTasksToLastScale(chunks) ==
    [n \in 1..Len(chunks) |->
        [start |-> chunks[n][1], i |-> chunks[n][1], end |-> chunks[Len(chunks)][2]]]

\* Lines 440-444: one goroutine per chunk, called with (chunk[0], chunk[1]),
\* its loop variable i at start.
subtractTasks(chunks) ==
    [n \in 1..Len(chunks) |->
        [start |-> chunks[n][1], i |-> chunks[n][1], end |-> chunks[n][2]]]

\* Lines 437-441: wg.Wait returns, the scales are divided among the workers.
KDivideScales ==
    /\ kPc = "crossconv"
    /\ kCrossDone = DOMAIN kCur
    /\ kTasks' = subtractTasks(divide(newWorkerPool(kNumCPU), Cardinality(DOMAIN kCur)))
    /\ kPc' = "subtract"
    /\ UNCHANGED <<kInputs, kHeap, kCC, kCur, kIter, kRescaled, kSelection, kCross,
                   kCrossDone, kExit, kImage>>
    /\ UNCHANGED notCl

\* Lines 444-465: worker n subtracts from the dirty map of its next scale.
KSubtract(n) ==
    /\ kPc = "subtract"
    /\ n \in DOMAIN kTasks
    /\ kTasks[n].i < kTasks[n].end
    /\ LET i == kTasks[n].i
       IN  kHeap' = [kHeap EXCEPT ![kCur[i]] =
                        subtractCrossConv(kHeap[kCur[i]], kCross[i], kMaxPos, kMaxIntensity)]
    /\ kTasks' = [kTasks EXCEPT ![n].i = @ + 1]
    /\ UNCHANGED <<kInputs, kPc, kCC, kCur, kIter, kRescaled, kSelection, kCross,
                   kCrossDone, kExit, kImage>>
    /\ UNCHANGED notCl

\* Line 468: pool.wg.Wait returns.
KJoin ==
    /\ kPc = "subtract"
    /\ \A n \in DOMAIN kTasks : kTasks[n].i >= kTasks[n].end
    /\ kPc' = "checkB"
    /\ kCross' = <<>>
    /\ kCrossDone' = {}
    /\ kTasks' = <<>>
    /\ UNCHANGED <<kInputs, kHeap, kCC, kCur, kIter, kRescaled, kSelection, kExit, kImage>>
    /\ UNCHANGED notCl

\* Lines 352-356.
KStoppingCondition ==
    /\ kPc = "checkB"
    /\ IF stoppingCondition(deref(kHeap, kCur))
       THEN kPc' = "exit" /\ kExit' = "converged" /\ kIter' = kIter
       ELSE kPc' = "loop" /\ kExit' = kExit /\ kIter' = kIter + 1
    /\ UNCHANGED <<kInputs, kHeap, kCC, kCur, kRescaled, kSelection, kCross, kCrossDone,
                   kTasks, kImage>>
    /\ UNCHANGED notCl

\* Lines 360-361.
KReturn ==
    /\ kPc = "exit"
    /\ kImage' = addResiduals(kHeap[kCC], deref(kHeap, kCur))
    /\ kPc' = "done"
    /\ UNCHANGED <<kInputs, kHeap, kCC, kCur, kIter, kRescaled, kSelection, kCross,
                   kCrossDone, kTasks, kExit>>
    /\ UNCHANGED notCl

NextClean ==
    \/ KAllocate
    \/ KRescale
    \/ KBudget
    \/ KSelect
    \/ KPanic
    \/ KUpdateCleanComponents
    \/ \E idx \in 0..(KMaxScales - 1) : KCrossConv(idx)
    \/ KDivideScales
    \/ \E n \in 1..KMaxCPU : KSubtract(n)
    \/ KJoin
    \/ KStoppingCondition
    \/ KReturn

SpecClean == InitClean /\ [][NextClean]_vars

-----------------------------------------------------------------------------
(* Properties of MultiScaleClean                                           *)

KCells(img) == {<<x, y>> : x \in DOMAIN img, y \in DOMAIN img[0]}

KAllZero(img) == \A c \in KCells(img) : img[c[1]][c[2]] = 0

KAllFinite(img) == \A c \in KCells(img) : IsFinite(img[c[1]][c[2]])

KUpdating == kPc \in {"updateCC", "crossconv", "subtract", "checkB"}

\* |v| <= 1e-5, as a comparison of numbers: false of NaN.
KWithinThreshold(v) == v # NaN /\ FAbs(v) <= Threshold

\* C5: MultiScaleClean runs to its return: it never stops in a run-time
\* panic; an update is only ever under way with fewer than 50 completed
\* iterations; and the loop is left in one of three ways: with the selected
\* maxIntensity below 1e-5, with every dirty-map cell within 1e-5 in
\* absolute value, or with iterCount at 50.
C5_TerminatesInOneOfThreeStates ==
    /\ kPc # "panic"
    /\ KUpdating => kIter < MaxIterations
    /\ kPc \in {"exit", "done"} =>
            \/ kExit = "intensity" /\ kMaxIntensity # NaN /\ kMaxIntensity < Threshold
            \/ /\ kExit = "converged"
               /\ \A i \in DOMAIN kCur : \A c \in KCells(kHeap[kCur[i]]) :
                      KWithinThreshold(kHeap[kCur[i]][c[1]][c[2]])
            \/ kExit = "budget" /\ kIter = MaxIterations

\* Every cell of the working dirty map of the scale that the iteration
\* starting in this state selects is below 1e-5.
KSelectedMapBelowThreshold ==
    LET sel == identifyMaxScale(rescaleDirtyMaps(kHeap, kCur, kBias).rescaled)
    IN  \A c \in KCells(kHeap[kCur[sel]]) :
            LET v == kHeap[kCur[sel]][c[1]][c[2]]
            IN  v # NaN /\ v < Threshold

KAllZeroInput == \A i \in DOMAIN kCaller.unclean : KAllZero(kCaller.unclean[i])

\* C6: an iteration that starts with the selected scale's unscaled dirty map
\* below 1e-5 everywhere goes through selection to the intensity exit and
\* from there to the return without a write to cleanComponents or to a dirty
\* map; on all-zero dirty maps no update is ever begun and the image
\* returned is all zero.
C6_LowIntensityStopsWithoutUpdate ==
    /\ [][/\ (kPc \in {"loop", "select"} /\ kIter < MaxIterations
                  /\ KSelectedMapBelowThreshold)
             => /\ kHeap' = kHeap
                /\ kPc = "loop" => kPc' = "select"
                /\ kPc = "select" => (kPc' = "exit" /\ kExit' = "intensity")
          /\ (kPc = "exit" /\ kExit = "intensity") => (kHeap' = kHeap /\ kPc' = "done")
        ]_vars
    /\ [](KAllZeroInput /\ kPc # "idle" =>
            /\ ~KUpdating
            /\ kIter = 0
            /\ kPc = "done" => (kExit = "intensity" /\ KAllZero(kImage)))

\* An iteration after the first ended at the intensity check and the call
\* returned.
C6_Witness ==
    /\ kPc = "done"
    /\ kExit = "intensity"
    /\ kIter > 0
    /\ \E i \in DOMAIN kCur : ~KAllZero(kHeap[kCur[i]])
    /\ ~KAllZero(kHeap[kCC])
    /\ KAllFinite(kImage)

\* C7: no non-finite value is ever held by cleanComponents, by a working
\* dirty map or by the returned image.
C7_NoNonFiniteValueWritten ==
    /\ kCC # 0 => KAllFinite(kHeap[kCC])
    /\ \A i \in DOMAIN kCur : KAllFinite(kHeap[kCur[i]])
    /\ kPc = "done" => KAllFinite(kImage)

\* The sum over the scales 0..i of cell (x, y), added from the last scale
\* down.
RECURSIVE KSumOverScales(_, _, _, _)
KSumOverScales(dirtyMaps, i, x, y) ==
    IF i < 0 THEN 0
    ELSE FAdd(dirtyMaps[i][x][y], KSumOverScales(dirtyMaps, i - 1, x, y))

\* C8: at return every cell of the image is cleanComponents plus the sum of
\* that cell over the dirty maps of all scales, as they stand at loop exit.
C8_ImageIsComponentsPlusAllResiduals ==
    kPc = "done" =>
        /\ DOMAIN kImage = DOMAIN kHeap[kCC]
        /\ \A c \in KCells(kHeap[kCC]) :
               kImage[c[1]][c[2]] =
                   FAdd(kHeap[kCC][c[1]][c[2]],
                        KSumOverScales(deref(kHeap, kCur), Cardinality(DOMAIN kCur) - 1,
                                       c[1], c[2]))

\* A return after updates, with two scales that both hold a residual.
C8_Witness ==
    /\ kPc = "done"
    /\ kExit = "converged"
    /\ Cardinality(DOMAIN kCur) = 2
    /\ ~KAllZero(kHeap[kCC])
    /\ \A i \in DOMAIN kCur : ~KAllZero(kHeap[kCur[i]])
    /\ kHeap[kCur[0]] # kHeap[kCur[1]]
    /\ KAllFinite(kImage)

KCallerRefs ==
    {kUnclean[i] : i \in DOMAIN kUnclean} \cup {kPsfs[i] : i \in DOMAIN kPsfs}
        \cup {kBasis[i] : i \in DOMAIN kBasis}

\* C9: from the call to the return the caller's dirty maps, PSFs, basis
\* functions and scaleBias hold what they held at the call;
\* cleanComponents and the working dirty maps are grids of their own; and the
\* rescale step writes no working dirty map.
C9_CallerDataAndWorkingMapsKept ==
    /\ [](kPc # "idle" =>
            /\ deref(kHeap, kUnclean) = kCaller.unclean
            /\ deref(kHeap, kPsfs) = kCaller.psfs
            /\ deref(kHeap, kBasis) = kCaller.basisFuncs
            /\ kBias = kCaller.scaleBias)
    /\ [](kPc \notin {"idle", "start"} =>
            ({kCC} \cup {kCur[i] : i \in DOMAIN kCur}) \cap KCallerRefs = {})
    /\ [][kPc = "loop" => deref(kHeap', kCur) = deref(kHeap, kCur)]_vars

\* A return after updates that changed the working dirty maps.
C9_Witness ==
    /\ kPc = "done"
    /\ kIter > 0
    /\ deref(kHeap, kCur) # kCaller.unclean
    /\ ~KAllZero(kHeap[kCC])
    /\ KAllFinite(kImage)

\* The cell p of img holds a value larger than every other cell.
KUniquePeakAt(img, p) ==
    \A c \in KCells(img) \ {p} : FGt(img[p[1]][p[2]], img[c[1]][c[2]])

\* One scale, the caller's dirty map and the basis function both with their
\* single largest cell at the centre, and the first iteration under way.
KCentredFirstIteration ==
    /\ kPc # "idle"
    /\ DOMAIN kCaller.unclean = {0}
    /\ KUniquePeakAt(kCaller.unclean[0], KCentre)
    /\ KUniquePeakAt(kCaller.basisFuncs[0], KCentre)
    /\ kIter = 0

\* C11: with one scale, a dirty map whose single largest cell is the centre
\* and a basis function peaked at the centre, the first iteration selects
\* maxPos = centre, and once updateCleanComponents has run the single
\* largest cell of cleanComponents is the centre.
C11_CentredSourceGivesCentredComponent ==
    KCentredFirstIteration =>
        /\ KUpdating => kMaxPos = KCentre
        /\ kPc \in {"crossconv", "subtract", "checkB"} =>
               KUniquePeakAt(kHeap[kCC], KCentre)

\* The same, for a PSF whose convolution with the basis function has a
\* maximum other than zero.
KCentredComponentForNonZeroDivisor ==
    (KCentredFirstIteration
        /\ maxValue(convolveSeq(kCaller.basisFuncs[0], kCaller.psfs[0])) # 0) =>
        /\ KUpdating => kMaxPos = KCentre
        /\ kPc \in {"crossconv", "subtract", "checkB"} =>
               KUniquePeakAt(kHeap[kCC], KCentre)

\* The basis functions and the PSFs all have their single largest cell at
\* index size/2 on each axis, as createBasisFunctionsFromACB and
\* createPSFsFromACB build them.
KSynthesizedShapes ==
    /\ kPc # "idle"
    /\ \A s \in DOMAIN kCaller.basisFuncs : KUniquePeakAt(kCaller.basisFuncs[s], KCentre)
    /\ \A s \in DOMAIN kCaller.psfs : KUniquePeakAt(kCaller.psfs[s], KCentre)

\* normFactor times the peak of the cross-convolution of scale s: in real
\* numbers gainFactor * maxIntensity / peak * peak = gainFactor * maxIntensity.
KPeakTerm(s) ==
    FMulInt(FDivInt(FGain(kMaxIntensity), maxValue(kCross[s])), maxValue(kCross[s]))

\* C13: for basis functions and PSFs peaked at index size/2, the subtraction
\* of a scale lowers that scale's dirty map at maxPos by normFactor times the
\* peak of its cross-convolution, that is by gainFactor * maxIntensity.
C13_PeakSubtractedAtMaxPos ==
    [][(kPc = "subtract" /\ kPc' = "subtract" /\ KSynthesizedShapes) =>
           \A n \in DOMAIN kTasks :
               kTasks'[n].i = kTasks[n].i + 1 =>
                   LET s == kTasks[n].i
                   IN  kHeap'[kCur[s]][kMaxPos[1]][kMaxPos[2]] =
                           FSub(kHeap[kCur[s]][kMaxPos[1]][kMaxPos[2]], KPeakTerm(s))
      ]_vars

\* The scales that subtraction goroutine n was started for.
KTaskScales(n) == kTasks[n].start..(kTasks[n].end - 1)

\* C14: in the subtraction phase every scale belongs to exactly one
\* goroutine; each step of the phase is one goroutine subtracting from the
\* dirty map of its next own scale and writing no other grid; and the phase
\* ends only when every goroutine has gone through all its scales.  So each
\* dirty map is written by one goroutine only, once per iteration.
C14_EachScaleSubtractedOnceByOneTask ==
    /\ [](kPc = "subtract" =>
            \A s \in DOMAIN kCur :
                Cardinality({n \in DOMAIN kTasks : s \in KTaskScales(n)}) = 1)
    /\ [][(kPc = "subtract" /\ kPc' = "subtract") =>
            \E n \in DOMAIN kTasks :
                LET s == kTasks[n].i
                IN  /\ s \in KTaskScales(n)
                    /\ kTasks' = [kTasks EXCEPT ![n].i = s + 1]
                    /\ kHeap' = [kHeap EXCEPT ![kCur[s]] =
                                    subtractCrossConv(kHeap[kCur[s]], kCross[s], kMaxPos,
                                                      kMaxIntensity)]
       ]_vars
    /\ [][(kPc = "subtract" /\ kPc' # "subtract") =>
            /\ kPc' = "checkB"
            /\ \A n \in DOMAIN kTasks : kTasks[n].i = kTasks[n].end
       ]_vars

\* Two scales and two goroutines, both through, each dirty map lowered.
C14_Witness ==
    /\ kPc = "subtract"
    /\ Cardinality(DOMAIN kCur) = 2
    /\ Len(kTasks) = 2
    /\ \A n \in DOMAIN kTasks : kTasks[n].i = kTasks[n].end /\ kTasks[n].start < kTasks[n].end
    /\ \A s \in DOMAIN kCur : kHeap[kCur[s]] # kCaller.unclean[s]
    /\ \A s \in DOMAIN kCur : KAllFinite(kHeap[kCur[s]])

\* The selection of the iteration has been made and no grid written since.
KJustSelected ==
    kPc = "updateCC" \/ (kPc \in {"exit", "done"} /\ kExit = "intensity")

\* Cell c of the working dirty map of scale s, multiplied by the bias.
KBiased(s, c) == FMulInt(kHeap[kCur[s]][c[1]][c[2]], kBias[s])

KScaleCells == {<<s, c>> : s \in DOMAIN kCur, c \in KCells(kHeap[kCur[0]])}

\* v is the largest value among the bias-multiplied dirty maps.
KIsLargestBiased(v) ==
    /\ v # NaN
    /\ \E sc \in KScaleCells : KBiased(sc[1], sc[2]) = v
    /\ \A sc \in KScaleCells : ~FGt(KBiased(sc[1], sc[2]), v)

\* Cell a comes before cell b in the order lowest x, then lowest y.
KCellBefore(a, b) == a[1] < b[1] \/ (a[1] = b[1] /\ a[2] < b[2])

-----------------------------------------------------------------------------
(* ParseACB                                                                *)
(*                                                                         *)
(* A line is [indent, parts]: the number of blanks before its first token  *)
(* and its tokens, strings.Fields(line); tokens are one blank apart.  A    *)
(* string field of ACBData is the sequence of the tokens joined into it.   *)

\* The literals among "source:", "bandfreq:" and "LM" that the token begins
\* with.
TokenPrefixes(tok) ==
    CASE tok \in {"source:", "source:3C273"} -> {"source:"}
      [] tok \in {"bandfreq:", "bandfreq:12"} -> {"bandfreq:"}
      [] tok \in {"LM", "LMS"} -> {"LM"}
      [] OTHER -> {}

\* strings.HasPrefix(line, "source:"), (line, "bandfreq:") and (line, " 1 LM")
HasPrefixSource(line) ==
    line.indent = 0 /\ Len(line.parts) >= 1 /\ "source:" \in TokenPrefixes(line.parts[1])

HasPrefixBandfreq(line) ==
    line.indent = 0 /\ Len(line.parts) >= 1 /\ "bandfreq:" \in TokenPrefixes(line.parts[1])

HasPrefixLM(line) ==
    /\ line.indent = 1
    /\ Len(line.parts) >= 2
    /\ line.parts[1] = "1"
    /\ "LM" \in TokenPrefixes(line.parts[2])

\* strconv.ParseFloat(tok, 64): the value and whether err == nil.  A number
\* out of the float64 range is returned with an error.
ParseFloat(tok) ==
    CASE tok = "7" -> [ok |-> TRUE, val |-> 7]
      [] tok = "12" -> [ok |-> TRUE, val |-> 12]
      [] tok = "-3" -> [ok |-> TRUE, val |-> -3]
      [] tok = "1" -> [ok |-> TRUE, val |-> 1]
      [] tok = "8" -> [ok |-> TRUE, val |-> 8]
      [] tok = "16" -> [ok |-> TRUE, val |-> 16]
      [] tok = "1e999" -> [ok |-> FALSE, val |-> PosInf]
      [] OTHER -> [ok |-> FALSE, val |-> 0]

\* Lines 85-94: the loop over the tokens of line 1, at token j (Go's i + 1).
RECURSIVE headerLoop(_, _, _)
headerLoop(parts, j, data) ==
    IF j > Len(parts) THEN data
    ELSE headerLoop(parts, j + 1,
             IF parts[j] = "timerange:" /\ j + 4 <= Len(parts)
             THEN [data EXCEPT !.TimeRange = SubSeq(parts, j + 1, j + 4)]
             ELSE IF parts[j] = "obscode:" /\ j + 1 <= Len(parts)
             THEN [data EXCEPT !.ObsCode = <<parts[j + 1]>>]
             ELSE IF parts[j] = "chans:" /\ j + 3 <= Len(parts)
             THEN [data EXCEPT !.Channels = SubSeq(parts, j + 1, j + 3)]
             ELSE data)

\* Lines 96-103.
RECURSIVE sourceLoop(_, _, _)
sourceLoop(parts, j, data) ==
    IF j > Len(parts) THEN data
    ELSE sourceLoop(parts, j + 1,
             IF parts[j] = "source:" /\ j + 1 <= Len(parts)
             THEN [data EXCEPT !.Source = <<parts[j + 1]>>]
             ELSE IF parts[j] = "bandw:" /\ j + 2 <= Len(parts)
             THEN [data EXCEPT !.Bandwidth = <<parts[j + 1], parts[j + 2]>>]
             ELSE data)

\* Lines 105-115.
RECURSIVE bandfreqLoop(_, _, _)
bandfreqLoop(parts, j, data) ==
    IF j > Len(parts) THEN data
    ELSE bandfreqLoop(parts, j + 1,
             IF parts[j] = "bandfreq:" /\ j + 2 <= Len(parts)
             THEN (IF ParseFloat(parts[j + 1]).ok
                   THEN [data EXCEPT !.Frequencies = Append(@, ParseFloat(parts[j + 1]).val)]
                   ELSE data)
             ELSE IF parts[j] = "polar:" /\ j + 1 <= Len(parts)
             THEN [data EXCEPT !.Polarizations = Append(@, parts[j + 1])]
             ELSE data)

\* Lines 117-123.
amplitudeLine(parts, data) ==
    IF Len(parts) >= 4 /\ ParseFloat(parts[4]).ok
    THEN [data EXCEPT !.Amplitudes = Append(@, ParseFloat(parts[4]).val)]
    ELSE data

\* Lines 84-124: the body of the scan loop for one line.
parseLine(line, lineNum, data) ==
    IF lineNum = 1 THEN headerLoop(line.parts, 1, data)
    ELSE IF HasPrefixSource(line) THEN sourceLoop(line.parts, 1, data)
    ELSE IF HasPrefixBandfreq(line) THEN bandfreqLoop(line.parts, 1, data)
    ELSE IF HasPrefixLM(line) THEN amplitudeLine(line.parts, data)
    ELSE data

-----------------------------------------------------------------------------
(* SpecParse                                                               *)

PaLine(indent, parts) == [indent |-> indent, parts |-> parts]

\* A header, a source line, two band lines, amplitude lines with a good, a
\* bad, a missing and an out-of-range 4th token, and a line that lacks the
\* leading blank.
PaLines ==
    {PaLine(0, <<"timerange:", "1", "to", "8", "UT", "obscode:", "X", "chans:", "1", "to", "8">>),
     PaLine(0, <<"source:", "3C273", "bandw:", "16", "MHz">>),
     PaLine(0, <<"bandfreq:", "12", "GHz", "polar:", "RR">>),
     PaLine(0, <<"bandfreq:", "abc", "GHz", "polar:", "LL">>),
     PaLine(1, <<"1", "LM", "x", "7">>),
     PaLine(1, <<"1", "LMS", "x", "-3", "y">>),
     PaLine(1, <<"1", "LM", "x", "abc">>),
     PaLine(1, <<"1", "LM", "x">>),
     PaLine(1, <<"1", "LM", "x", "1e999">>),
     PaLine(0, <<"1", "LM", "x", "7">>)}

\* Lines 71-75.
PaEmptyData ==
    [TimeRange |-> <<>>, ObsCode |-> <<>>, Channels |-> <<>>, Source |-> <<>>,
     Bandwidth |-> <<>>, Frequencies |-> <<>>, Polarizations |-> <<>>, Amplitudes |-> <<>>]

InitParse ==
    /\ pPc = "start"
    /\ pOpenFails \in BOOLEAN
    /\ \E n \in 0..PaMaxLines : pFile \in [1..n -> PaLines]
    /\ pReadFails \in 0..Len(pFile)
    /\ pLineNum = 0
    /\ pData = <<>>
    /\ pErr = "nil"
    /\ DivIdle
    /\ CvIdle
    /\ DmIdle
    /\ RtIdle
    /\ ClIdle

\* Lines 65-78.
PaOpen ==
    /\ pPc = "start"
    /\ IF pOpenFails
       THEN pPc' = "done" /\ pErr' = "open" /\ pData' = pData
       ELSE pPc' = "scan" /\ pErr' = pErr /\ pData' = PaEmptyData
    /\ UNCHANGED <<pOpenFails, pFile, pReadFails, pLineNum>>
    /\ UNCHANGED notPa

\* Lines 80-125: scanner.Scan() gives the next line and the body runs.
PaScanLine ==
    /\ pPc = "scan"
    /\ pLineNum < Len(pFile)
    /\ pLineNum + 1 # pReadFails
    /\ pLineNum' = pLineNum + 1
    /\ pData' = parseLine(pFile[pLineNum + 1], pLineNum + 1, pData)
    /\ UNCHANGED <<pPc, pOpenFails, pFile, pReadFails, pErr>>
    /\ UNCHANGED notPa

\* Lines 80 and 127-129: scanner.Scan() fails, ParseACB returns nil and the
\* error.
PaScanFails ==
    /\ pPc = "scan"
    /\ pLineNum < Len(pFile)
    /\ pLineNum + 1 = pReadFails
    /\ pPc' = "done"
    /\ pErr' = "scan"
    /\ pData' = <<>>
    /\ UNCHANGED <<pOpenFails, pFile, pReadFails, pLineNum>>
    /\ UNCHANGED notPa

\* Lines 80 and 127-131: the end of the file.
PaReturn ==
    /\ pPc = "scan"
    /\ pLineNum = Len(pFile)
    /\ pPc' = "done"
    /\ UNCHANGED <<pOpenFails, pFile, pReadFails, pLineNum, pData, pErr>>
    /\ UNCHANGED notPa

NextParse ==
    \/ PaOpen
    \/ PaScanLine
    \/ PaScanFails
    \/ PaReturn

SpecParse == InitParse /\ [][NextParse]_vars

\* The amplitude of an amplitude line with a 4th token that parses.
PaIsValidAmplitudeLine(line) ==
    HasPrefixLM(line) /\ Len(line.parts) >= 4 /\ ParseFloat(line.parts[4]).ok

\* The 4th tokens, parsed, of the valid amplitude lines among lines n.. of
\* the file, in file order.
RECURSIVE PaValidAmplitudes(_, _)
PaValidAmplitudes(file, n) ==
    IF n > Len(file) THEN <<>>
    ELSE IF PaIsValidAmplitudeLine(file[n])
         THEN <<ParseFloat(file[n].parts[4]).val>> \o PaValidAmplitudes(file, n + 1)
         ELSE PaValidAmplitudes(file, n + 1)

\* C12: ParseACB returns an error only when the file cannot be opened or
\* read, never for a malformed field; an amplitude line changes Amplitudes
\* only when its 4th token parses; and at a return without error Amplitudes
\* holds the 4th tokens of all the valid amplitude lines of the file, in file
\* order.
C12_AmplitudesAreTheValidLines ==
    /\ pPc = "done" => (pErr # "nil" <=> (pOpenFails \/ pReadFails # 0))
    /\ (pPc = "done" /\ pErr = "nil") => pData.Amplitudes = PaValidAmplitudes(pFile, 1)

\* The same count, over the lines after the first.
PaAmplitudesAreTheValidLinesAfterTheFirst ==
    /\ pPc = "done" => (pErr # "nil" <=> (pOpenFails \/ pReadFails # 0))
    /\ (pPc = "done" /\ pErr = "nil") => pData.Amplitudes = PaValidAmplitudes(pFile, 2)

-----------------------------------------------------------------------------
(* SpecPhases: one call of createDirtyMapsFromACB, of MultiScaleClean or   *)
(* of convolve, for the properties of the parallel phases of all three     *)

InitPhases == InitDirty \/ InitClean \/ InitConvolve

NextPhases == NextDirty \/ NextClean \/ NextConvolve

SpecPhases == InitPhases /\ [][NextPhases]_vars

\* C15: accumulation goroutines exist only once every lookup goroutine is
\* done; subtraction goroutines exist only once every cross-convolution
\* goroutine of the iteration is done and its crossConvs entry stored;
\* cleanComponents is written only by the clean-component update, before the
\* first cross-convolution goroutine acts; the dirty maps are written only in
\* the subtraction phase; and the stopping condition is evaluated only after
\* every subtraction goroutine is through, on dirty maps no longer written.
C15_PhasesSeparatedByBarriers ==
    /\ [](mWorkers # <<>> => mLookupDone = 0..(mNumScales - 1))
    /\ [](kPc = "subtract" =>
            /\ kCrossDone = DOMAIN kCur
            /\ \A s \in DOMAIN kCur : kCross[s] # <<>>)
    /\ [](kPc = "crossconv" => kTasks = <<>>)
    /\ [][/\ (kPc \notin {"idle", "start"} /\ kHeap'[kCC] # kHeap[kCC]) =>
                 (kPc = "updateCC" /\ kPc' = "crossconv" /\ kCrossDone' = {})
          /\ (kPc \notin {"idle", "start"}
                 /\ \E s \in DOMAIN kCur : kHeap'[kCur[s]] # kHeap[kCur[s]]) =>
                 (kPc = "subtract" /\ kPc' = "subtract")
          /\ kPc' = "checkB" =>
                 (kPc = "subtract" /\ kHeap' = kHeap
                     /\ \A n \in DOMAIN kTasks : kTasks[n].i = kTasks[n].end)
          /\ kPc = "checkB" => kHeap' = kHeap
       ]_vars

\* The subtraction phase under way with two goroutines, one of them through.
C15_Witness ==
    /\ kPc = "subtract"
    /\ Len(kTasks) = 2
    /\ \E n \in DOMAIN kTasks : kTasks[n].i = kTasks[n].end /\ kTasks[n].start < kTasks[n].end
    /\ \E n \in DOMAIN kTasks : kTasks[n].i < kTasks[n].end

\* The next step of accumulation goroutine n once its local updates are
\* computed (lines 220-226), and the next step of convolve worker n.
DmWorkerStep(n) == DmLock(n) \/ DmRead(n) \/ DmWrite(n) \/ DmUnlock(n)

CvWorkerStep(n) == CvRead(n) \/ CvWrite(n)

\* Every goroutine of the lookup, cross-convolution, subtraction and
\* convolve phases that has not finished can take its next step: a lookup
\* goroutine and a convolve worker have a step enabled, a cross-convolution
\* goroutine has a convolve result to store, a subtraction goroutine has the
\* dirty map and the cross-convolution of its next scale at hand.
PhTasksOutsideAccumulationCanStep ==
    /\ \A sc \in 0..(mNumScales - 1) :
           (mPc = "lookup" /\ sc \notin mLookupDone) => ENABLED DmLookupTask(sc)
    /\ \A idx \in DOMAIN kCur :
           (kPc = "crossconv" /\ idx \notin kCrossDone) =>
               convolveOutcomes(kHeap[kBasis[kMaxScale]], kHeap[kPsfs[idx]],
                                newWorkerPool(kNumCPU)) # {}
    /\ \A n \in DOMAIN kTasks :
           (kPc = "subtract" /\ kTasks[n].i < kTasks[n].end) =>
               (kTasks[n].i \in DOMAIN kCur /\ kCross[kTasks[n].i] # <<>>)
    /\ \A n \in DOMAIN cWorkers :
           (cPc = "run" /\ cWorkers[n].pc # "done") => ENABLED CvWorkerStep(n)

\* Accumulation goroutine n has not finished and cannot take a step. Lines
\* 201-218 (pc = "next") hold no call that waits; from line 220 on the
\* goroutine can move exactly when one of its steps is enabled.
DmBlocked(n) ==
    /\ mPc = "accumulate"
    /\ mWorkers[n].pc \notin {"done", "next"}
    /\ ~ENABLED DmWorkerStep(n)

\* C17, as stated: in no phase is a goroutine that has not finished ever
\* unable to take its next step.
C17_NoTaskEverBlocked ==
    /\ PhTasksOutsideAccumulationCanStep
    /\ \A n \in DOMAIN mWorkers : ~DmBlocked(n)

\* C17, amended: the goroutines of the lookup, cross-convolution,
\* subtraction and convolve phases are never blocked; an accumulation
\* goroutine is blocked only in mutex.Lock() and only while another
\* accumulation goroutine holds the mutex, and that goroutine is not blocked.
C17_BlockedOnlyOnHeldMutex ==
    /\ PhTasksOutsideAccumulationCanStep
    /\ \A n \in DOMAIN mWorkers :
           DmBlocked(n) =>
               /\ mWorkers[n].pc = "lock"
               /\ mMutex \in DOMAIN mWorkers
               /\ mMutex # n
               /\ ~DmBlocked(mMutex)

\* An accumulation goroutine waits in mutex.Lock() for another one.
C17_Witness ==
    \E n \in DOMAIN mWorkers : DmBlocked(n) /\ mWorkers[n].pc = "lock" /\ mMutex # 0

=============================================================================
